---- MODULE Spec2Model ----
(***************************************************************************)
(* mpags-cipher: main() of src/src/mpags-cipher.cpp.                       *)
(*                                                                         *)
(* The model follows main() from the construction of the ciphers (line     *)
(* 102) to the return (line 196): the construction loop, the decrypt-time  *)
(* reversal, the run loop with its chunked branch (std::async tasks, the   *)
(* polling wait, the reassembly) and its sequential branch, and the        *)
(* output.  The cipher classes and the factory are declared in headers     *)
(* that are not part of the source tree; their transforms are written      *)
(* from sections 4.2-4.4 of the specification.                             *)
(*                                                                         *)
(* Characters are alphabet positions: A = 0 .. Z = 25; the digits of a     *)
(* raw key string are 26 + d.                                              *)
(***************************************************************************)
EXTENDS Integers, Sequences, FiniteSets, TLC

\* ------------------------------------------------------------------------
\* Bounds of the exploration
\* ------------------------------------------------------------------------

\* longest cipher list handed to the program
MaxCiphers == 2

\* longest cipher list of the runs explored under fairness
MaxFairCiphers == 1

\* longest normalised input text
MaxTextLen == 5

\* ------------------------------------------------------------------------
\* Program constants
\* ------------------------------------------------------------------------

\* const std::size_t numThreads{4};
numThreads == 4

\* return 1 of the construction failure paths
FailExit == 1

\* letters of the alphabet (section 4.2, letters only)
AlphabetSize == 26

\* side of the Playfair grid (section 4.4)
GridSide == 5

\* code of the digit 0 in a raw key string
DigitBase == 26

CipherTypes == {"Caesar", "Playfair", "Vigenere"}

CipherModes == {"Encrypt", "Decrypt"}

\* letters used by the Playfair rules
LetterI == 8
LetterJ == 9
LetterQ == 16
LetterX == 23

\* ------------------------------------------------------------------------
\* Sequence helpers
\* ------------------------------------------------------------------------

Reverse(s) == [j \in 1..Len(s) |-> s[Len(s) + 1 - j]]

Range(s) == {s[j] : j \in 1..Len(s)}

Min(a, b) == IF a < b THEN a ELSE b

\* std::string::substr(start, end - start), 0-based start: the characters
\* from start, at most end - start of them and no further than the end of
\* the text.  (A start beyond the size throws std::out_of_range; the chunk
\* tasks never pass one, as the ranges of ChunkStart and ChunkEnd show.)
Substr(text, start, end) ==
    IF start >= Len(text) THEN <<>>
    ELSE SubSeq(text, start + 1, Min(end, Len(text)))

\* ------------------------------------------------------------------------
\* Keys (sections 3, 4.2-4.4)
\* ------------------------------------------------------------------------

IsDigit(c) == c >= DigitBase /\ c < DigitBase + 10

IsLetter(c) == c >= 0 /\ c < AlphabetSize

RECURSIVE Decimal(_)
Decimal(key) ==
    IF key = <<>> THEN 0
    ELSE 10 * Decimal(SubSeq(key, 1, Len(key) - 1)) + (key[Len(key)] - DigitBase)

\* a key that cannot produce a valid cipher state is rejected at construction
ValidKey(type, key) ==
    CASE type = "Caesar"   -> /\ key # <<>>
                              /\ \A j \in 1..Len(key) : IsDigit(key[j])
                              /\ Decimal(key) < AlphabetSize
      [] type = "Vigenere" -> /\ key # <<>>
                              /\ \A j \in 1..Len(key) : IsLetter(key[j])
      [] type = "Playfair" -> TRUE

\* ------------------------------------------------------------------------
\* Caesar (section 4.2)
\* ------------------------------------------------------------------------

ShiftChar(p, k, mode) ==
    IF mode = "Encrypt" THEN (p + k) % AlphabetSize
    ELSE (p - k + AlphabetSize) % AlphabetSize

CaesarApply(key, text, mode) ==
    [j \in 1..Len(text) |-> ShiftChar(text[j], key[1], mode)]

\* ------------------------------------------------------------------------
\* Vigenere (section 4.3)
\* ------------------------------------------------------------------------

VigenereApply(key, text, mode) ==
    [j \in 1..Len(text) |->
        ShiftChar(text[j], key[((j - 1) % Len(key)) + 1], mode)]

\* ------------------------------------------------------------------------
\* Playfair (section 4.4)
\* ------------------------------------------------------------------------

MergeJ(c) == IF c = LetterJ THEN LetterI ELSE c

RECURSIVE Dedup(_, _)
Dedup(s, acc) ==
    IF s = <<>> THEN acc
    ELSE IF Head(s) \in Range(acc) THEN Dedup(Tail(s), acc)
         ELSE Dedup(Tail(s), Append(acc, Head(s)))

PlainAlphabet == [j \in 1..AlphabetSize |-> j - 1]

\* key letters (J merged into I, first occurrences), then the rest of the
\* alphabet in order: 25 distinct letters
Grid(key) ==
    Dedup([j \in 1..(Len(key) + AlphabetSize) |->
               IF j <= Len(key) THEN MergeJ(key[j])
               ELSE MergeJ(PlainAlphabet[j - Len(key)])],
          <<>>)

LettersOf(key) == SelectSeq(key, IsLetter)

Filler(c) == IF c = LetterX THEN LetterQ ELSE LetterX

GridPos(grid, c) == (CHOOSE j \in 1..Len(grid) : grid[j] = c) - 1

GridAt(grid, row, col) == grid[row * GridSide + col + 1]

\* one column right / one row down to encrypt, left / up to decrypt
Step(mode) == IF mode = "Encrypt" THEN 1 ELSE GridSide - 1

PlayfairAt(grid, pa, pb, mode) ==
    IF pa \div GridSide = pb \div GridSide
    THEN <<GridAt(grid, pa \div GridSide, (pa + Step(mode)) % GridSide),
           GridAt(grid, pb \div GridSide, (pb + Step(mode)) % GridSide)>>
    ELSE IF pa % GridSide = pb % GridSide
    THEN <<GridAt(grid, (pa \div GridSide + Step(mode)) % GridSide,
                  pa % GridSide),
           GridAt(grid, (pb \div GridSide + Step(mode)) % GridSide,
                  pb % GridSide)>>
    ELSE <<GridAt(grid, pa \div GridSide, pb % GridSide),
           GridAt(grid, pb \div GridSide, pa % GridSide)>>

PlayfairPair(grid, a, b, mode) ==
    PlayfairAt(grid, GridPos(grid, MergeJ(a)), GridPos(grid, MergeJ(b)), mode)

\* the text is split into digraphs, with a filler between the identical
\* letters of a pair and after the last letter of a text left with odd
\* length, and every digraph is transformed
RECURSIVE PlayfairApply(_, _, _)
PlayfairApply(grid, text, mode) ==
    IF text = <<>> THEN <<>>
    ELSE IF Len(text) = 1 \/ MergeJ(text[1]) = MergeJ(text[2])
         THEN PlayfairPair(grid, text[1], Filler(MergeJ(text[1])), mode)
                  \o PlayfairApply(grid, Tail(text), mode)
         ELSE PlayfairPair(grid, text[1], text[2], mode)
                  \o PlayfairApply(grid, SubSeq(text, 3, Len(text)), mode)

\* ------------------------------------------------------------------------
\* Cipher::applyCipher, dispatched on the dynamic type of the cipher
\* ------------------------------------------------------------------------

applyCipher(cipher, text, mode) ==
    CASE cipher.type = "Caesar"   -> CaesarApply(cipher.key, text, mode)
      [] cipher.type = "Vigenere" -> VigenereApply(cipher.key, text, mode)
      [] cipher.type = "Playfair" -> PlayfairApply(cipher.key, text, mode)

\* ------------------------------------------------------------------------
\* CipherFactory::makeCipher: the outcomes main() provides for (lines
\* 108-122): an InvalidKey exception, a null pointer, or a cipher
\* ------------------------------------------------------------------------

NullCipher == [type |-> "null", key |-> <<>>, id |-> 0]

\* the outcome "throws InvalidKey"
InvalidKey == [type |-> "InvalidKey", key |-> <<>>, id |-> 0]

\* the validated key material a cipher owns: the shift, the key letters or
\* the grid
KeyState(type, key) ==
    CASE type = "Caesar"   -> <<Decimal(key)>>
      [] type = "Vigenere" -> key
      [] type = "Playfair" -> Grid(LettersOf(key))

makeCipher(type, key, id) ==
    IF ValidKey(type, key)
    THEN {[type |-> type, key |-> KeyState(type, key), id |-> id],
          NullCipher}
    ELSE {InvalidKey}

\* ------------------------------------------------------------------------
\* Inputs
\* ------------------------------------------------------------------------

KeyThree  == <<DigitBase + 3>>
KeyThirty == <<DigitBase + 3, DigitBase>>
KeyBD     == <<1, 3>>
KeyEmpty  == <<>>

\* the (-c, -k) pairs a command line may carry
Configs ==
    { [type |-> "Caesar",   key |-> KeyThree],
      [type |-> "Vigenere", key |-> KeyBD],
      [type |-> "Playfair", key |-> KeyBD],
      [type |-> "Caesar",   key |-> KeyThirty],
      [type |-> "Vigenere", key |-> KeyEmpty] }

ConfigListsUpTo(m) == UNION {[1..n -> Configs] : n \in 0..m}

ConfigLists == ConfigListsUpTo(MaxCiphers)

Hello   == <<7, 4, 11, 11, 14, 22, 14, 17, 11, 3>>
Balloon == <<1, 0, 11, 11, 14, 14, 13>>

Prefix(s, n) == SubSeq(s, 1, IF n < Len(s) THEN n ELSE Len(s))

\* normalised input texts: the prefixes of HELLOWORLD and of BALLOON
Texts == {Prefix(Hello, n) : n \in 0..MaxTextLen}
            \cup {Prefix(Balloon, n) : n \in 0..MaxTextLen}

\* the input texts of the runs explored under fairness
FairTexts == {Prefix(Hello, n) : n \in 0..MaxTextLen}

\* ------------------------------------------------------------------------
\* State
\* ------------------------------------------------------------------------

VARIABLES
    cipherType,   \* settings.cipherType
    cipherKey,    \* settings.cipherKey
    cipherMode,   \* settings.cipherMode
    cipherText,   \* the running text
    ciphers,      \* std::vector<std::unique_ptr<Cipher>>
    pc,           \* position of the main thread
    stage,        \* position of the run loop in ciphers (1-based)
    chunkSize,    \* chunkSize of the current stage
    futures,      \* the chunk tasks of the current stage and their futures
    fut,          \* position of the wait loop / of the collecting loop
    status,       \* last std::future_status returned by wait_for
    exitStatus,   \* value returned by main, -1 while it runs
    out,          \* text written to the output stream
    written,      \* whether the output text has been written
    run,          \* 1: the run started by Init, 2: a run on the output of run 1
    original,     \* input text of run 1
    calls,        \* history: the applyCipher calls made in this run
    stageInput,   \* history: cipherText when the current stage began
    outOfOrder    \* history: in this stage a task completed before one of
                  \* lower index

vars == <<cipherType, cipherKey, cipherMode, cipherText, ciphers, pc, stage,
          chunkSize, futures, fut, status, exitStatus, out, written, run,
          original, calls, stageInput, outOfOrder>>

settings == <<cipherType, cipherKey, cipherMode>>

nCiphers == Len(cipherType)

StartRun(types, keys, mode, text) ==
    /\ cipherType = types
    /\ cipherKey = keys
    /\ cipherMode = mode
    /\ cipherText = text
    /\ ciphers = <<>>
    /\ pc = "construct"
    /\ stage = 1
    /\ chunkSize = 0
    /\ futures = <<>>
    /\ fut = 1
    /\ status = "timeout"
    /\ exitStatus = -1
    /\ out = <<>>
    /\ written = FALSE
    /\ calls = {}
    /\ stageInput = text
    /\ outOfOrder = FALSE

InitWith(lists, texts) ==
    \E cfg \in lists, mode \in CipherModes, text \in texts :
        /\ StartRun([j \in 1..Len(cfg) |-> cfg[j].type],
                    [j \in 1..Len(cfg) |-> cfg[j].key], mode, text)
        /\ run = 1
        /\ original = text

InitFrom(lists) == InitWith(lists, Texts)

Init == InitFrom(ConfigLists)

\* the runs with the shorter cipher lists
FairInit == InitWith(ConfigListsUpTo(MaxFairCiphers), FairTexts)

\* ------------------------------------------------------------------------
\* Construction of the ciphers (lines 102-123)
\* ------------------------------------------------------------------------

\* a null check that never fires
IsNull_Never(c) == FALSE

\* if (!ciphers.back())
IsNull(c) == c = NullCipher

Made == makeCipher(cipherType[Len(ciphers) + 1], cipherKey[Len(ciphers) + 1],
                   Len(ciphers) + 1)

ConstructOk ==
    /\ pc = "construct"
    /\ Len(ciphers) < nCiphers
    /\ \E c \in Made :
        /\ c # InvalidKey
        /\ ~IsNull(c)
        /\ ciphers' = Append(ciphers, c)
    /\ UNCHANGED <<settings, cipherText, pc, stage, chunkSize, futures, fut,
                   status, exitStatus, out, written, run, original, calls,
                   stageInput, outOfOrder>>

ConstructInvalidKey ==
    /\ pc = "construct"
    /\ Len(ciphers) < nCiphers
    /\ InvalidKey \in Made
    /\ pc' = "exit"
    /\ exitStatus' = FailExit
    /\ UNCHANGED <<settings, cipherText, ciphers, stage, chunkSize, futures,
                   fut, status, out, written, run, original, calls,
                   stageInput, outOfOrder>>

ConstructNull ==
    /\ pc = "construct"
    /\ Len(ciphers) < nCiphers
    /\ \E c \in Made :
        /\ c # InvalidKey
        /\ IsNull(c)
        /\ ciphers' = Append(ciphers, c)
    /\ pc' = "exit"
    /\ exitStatus' = FailExit
    /\ UNCHANGED <<settings, cipherText, stage, chunkSize, futures, fut,
                   status, out, written, run, original, calls, stageInput,
                   outOfOrder>>

\* ------------------------------------------------------------------------
\* Decrypt-time reversal (lines 125-128)
\* ------------------------------------------------------------------------

\* a reversal that loses the last cipher
Ordered_Dropping(cs, mode) ==
    IF mode = "Decrypt" /\ cs # <<>> THEN Tail(Reverse(cs)) ELSE cs

Ordered(cs, mode) == IF mode = "Decrypt" THEN Reverse(cs) ELSE cs

ReverseCiphers ==
    /\ pc = "construct"
    /\ Len(ciphers) = nCiphers
    /\ ciphers' = Ordered(ciphers, cipherMode)
    /\ pc' = "stage"
    /\ stage' = 1
    /\ UNCHANGED <<settings, cipherText, chunkSize, futures, fut, status,
                   exitStatus, out, written, run, original, calls,
                   stageInput, outOfOrder>>

\* ------------------------------------------------------------------------
\* The run loop (lines 130-174)
\* ------------------------------------------------------------------------

\* the test looks at the first configured cipher only
Chunked_First(types) == types # <<>> /\ types[1] = "Caesar"

\* std::find(settings.cipherType..., CipherType::Caesar) != end()
Chunked(types) == "Caesar" \in Range(types)

\* the chunk starts where it should end
ChunkStart_Next(i, size) == (i + 1) * size

ChunkStart(i, size) == i * size

\* the last chunk does not absorb the remainder
ChunkEnd_NoRemainder(i, size, textLen) == (i + 1) * size

ChunkEnd(i, size, textLen) ==
    IF i = numThreads - 1 THEN textLen ELSE (i + 1) * size

\* the chunk task applies the cipher of the stage
TaskCipher_OfStage(cs, k) == cs[k]

\* the cipher a chunk task applies
TaskCipher(cs, k) == Head(cs)

\* a call that always encrypts
ModeArg_Encrypt(mode) == "Encrypt"

\* the mode argument of applyCipher: settings.cipherMode, read at the call
ModeArg(mode) == mode

\* a wait that never sees the result
WaitStatus_NeverReady(f) == "timeout"

\* a wait that reports every future as ready
WaitStatus_AlwaysReady(f) == "ready"

\* std::future_status of wait_for on a future
WaitStatus(f) == IF f.state = "ready" THEN "ready" ELSE "timeout"

\* a loop that stops one future short
LoopEnd_Short(futs) == Len(futs) - 1

\* end of a range-for over futures
LoopEnd(futs) == Len(futs)

\* results put in front of the text collected so far
Collect_Prepend(text, result) == result \o text

\* cipherText += future.get()
Collect(text, result) == text \o result

StageSequential ==
    /\ pc = "stage"
    /\ stage <= Len(ciphers)
    /\ ~Chunked(cipherType)
    /\ cipherText' = applyCipher(ciphers[stage], cipherText,
                                 ModeArg(cipherMode))
    /\ calls' = calls \cup {[stage |-> stage, cipher |-> ciphers[stage].id,
                             mode |-> ModeArg(cipherMode), chunk |-> 0]}
    /\ stageInput' = cipherText
    /\ stage' = stage + 1
    /\ UNCHANGED <<settings, ciphers, pc, chunkSize, futures, fut, status,
                   exitStatus, out, written, run, original, outOfOrder>>

StageChunked ==
    /\ pc = "stage"
    /\ stage <= Len(ciphers)
    /\ Chunked(cipherType)
    /\ chunkSize' = Len(cipherText) \div numThreads
    /\ futures' = <<>>
    /\ stageInput' = cipherText
    /\ outOfOrder' = FALSE
    /\ pc' = "launch"
    /\ UNCHANGED <<settings, cipherText, ciphers, stage, fut, status,
                   exitStatus, out, written, run, original, calls>>

Launch ==
    /\ pc = "launch"
    /\ Len(futures) < numThreads
    /\ LET i == Len(futures)
       IN  futures' = Append(futures,
               [start  |-> ChunkStart(i, chunkSize),
                end    |-> ChunkEnd(i, chunkSize, Len(cipherText)),
                state  |-> "started",
                chunk  |-> <<>>,
                result |-> <<>>])
    /\ IF Len(futures') = numThreads
       THEN pc' = "wait" /\ fut' = 1
       ELSE UNCHANGED <<pc, fut>>
    /\ UNCHANGED <<settings, cipherText, ciphers, stage, chunkSize, status,
                   exitStatus, out, written, run, original, calls,
                   stageInput, outOfOrder>>

\* body of the task, first statement: chunk = cipherText.substr(...)
TaskSubstr(t) ==
    /\ t \in 1..Len(futures)
    /\ futures[t].state = "started"
    /\ futures' = [futures EXCEPT
                      ![t].chunk = Substr(cipherText, futures[t].start,
                                          futures[t].end),
                      ![t].state = "copied"]
    /\ UNCHANGED <<settings, cipherText, ciphers, pc, stage, chunkSize, fut,
                   status, exitStatus, out, written, run, original, calls,
                   stageInput, outOfOrder>>

\* body of the task, the rest: applyCipher on the chunk and return
TaskApply(t) ==
    /\ t \in 1..Len(futures)
    /\ futures[t].state = "copied"
    /\ futures' = [futures EXCEPT
                      ![t].result = applyCipher(TaskCipher(ciphers, stage),
                                                futures[t].chunk,
                                                ModeArg(cipherMode)),
                      ![t].state = "ready"]
    /\ calls' = calls \cup {[stage |-> stage,
                             cipher |-> TaskCipher(ciphers, stage).id,
                             mode |-> ModeArg(cipherMode), chunk |-> t]}
    /\ outOfOrder' = (outOfOrder
                        \/ \E u \in 1..(t - 1) : futures[u].state # "ready")
    /\ UNCHANGED <<settings, cipherText, ciphers, pc, stage, chunkSize, fut,
                   status, exitStatus, out, written, run, original,
                   stageInput>>

\* auto status = future.wait_for(std::chrono::seconds(1));
WaitFor ==
    /\ pc = "wait"
    /\ fut <= LoopEnd(futures)
    /\ status' = WaitStatus(futures[fut])
    /\ pc' = "poll"
    /\ UNCHANGED <<settings, cipherText, ciphers, stage, chunkSize, futures,
                   fut, exitStatus, out, written, run, original, calls,
                   stageInput, outOfOrder>>

\* while (status != ready) status = future.wait_for(std::chrono::seconds(2));
WaitAgain ==
    /\ pc = "poll"
    /\ status # "ready"
    /\ status' = WaitStatus(futures[fut])
    /\ UNCHANGED <<settings, cipherText, ciphers, pc, stage, chunkSize,
                   futures, fut, exitStatus, out, written, run, original,
                   calls, stageInput, outOfOrder>>

WaitNext ==
    /\ pc = "poll"
    /\ status = "ready"
    /\ fut' = fut + 1
    /\ pc' = "wait"
    /\ UNCHANGED <<settings, cipherText, ciphers, stage, chunkSize, futures,
                   status, exitStatus, out, written, run, original, calls,
                   stageInput, outOfOrder>>

\* cipherText = "";
Clear ==
    /\ pc = "wait"
    /\ fut > LoopEnd(futures)
    /\ cipherText' = <<>>
    /\ pc' = "get"
    /\ fut' = 1
    /\ UNCHANGED <<settings, ciphers, stage, chunkSize, futures, status,
                   exitStatus, out, written, run, original, calls,
                   stageInput, outOfOrder>>

\* cipherText += future.get();  get() blocks until the result is ready
Get ==
    /\ pc = "get"
    /\ fut <= LoopEnd(futures)
    /\ futures[fut].state = "ready"
    /\ cipherText' = Collect(cipherText, futures[fut].result)
    /\ fut' = fut + 1
    /\ UNCHANGED <<settings, ciphers, pc, stage, chunkSize, futures, status,
                   exitStatus, out, written, run, original, calls,
                   stageInput, outOfOrder>>

\* end of the chunked branch: futures goes out of scope, next cipher
StageEnd ==
    /\ pc = "get"
    /\ fut > LoopEnd(futures)
    /\ \A t \in 1..Len(futures) : futures[t].state = "ready"
    /\ futures' = <<>>
    /\ stage' = stage + 1
    /\ pc' = "stage"
    /\ fut' = 1
    /\ UNCHANGED <<settings, cipherText, ciphers, chunkSize, status,
                   exitStatus, out, written, run, original, calls,
                   stageInput, outOfOrder>>

\* ------------------------------------------------------------------------
\* Output (lines 176-196)
\* ------------------------------------------------------------------------

OutputOk ==
    /\ pc = "stage"
    /\ stage > Len(ciphers)
    /\ out' = cipherText
    /\ written' = TRUE
    /\ exitStatus' = 0
    /\ pc' = "exit"
    /\ UNCHANGED <<settings, cipherText, ciphers, stage, chunkSize, futures,
                   fut, status, run, original, calls, stageInput, outOfOrder>>

\* the output file cannot be opened
OutputFail ==
    /\ pc = "stage"
    /\ stage > Len(ciphers)
    /\ exitStatus' = FailExit
    /\ pc' = "exit"
    /\ UNCHANGED <<settings, cipherText, ciphers, stage, chunkSize, futures,
                   fut, status, out, written, run, original, calls,
                   stageInput, outOfOrder>>

\* ------------------------------------------------------------------------
\* A second run of the program: same ciphers and keys, --decrypt, on the
\* text the first run wrote (which is normalised already)
\* ------------------------------------------------------------------------

Redecrypt ==
    /\ pc = "exit"
    /\ exitStatus = 0
    /\ written
    /\ run = 1
    /\ cipherMode = "Encrypt"
    /\ cipherType' = cipherType
    /\ cipherKey' = cipherKey
    /\ cipherMode' = "Decrypt"
    /\ cipherText' = out
    /\ ciphers' = <<>>
    /\ pc' = "construct"
    /\ stage' = 1
    /\ chunkSize' = 0
    /\ futures' = <<>>
    /\ fut' = 1
    /\ status' = "timeout"
    /\ exitStatus' = -1
    /\ out' = <<>>
    /\ written' = FALSE
    /\ calls' = {}
    /\ stageInput' = out
    /\ outOfOrder' = FALSE
    /\ run' = 2
    /\ UNCHANGED original

\* ------------------------------------------------------------------------
\* Specification
\* ------------------------------------------------------------------------

MainStep ==
    \/ ConstructOk
    \/ ConstructInvalidKey
    \/ ConstructNull
    \/ ReverseCiphers
    \/ StageSequential
    \/ StageChunked
    \/ Launch
    \/ WaitFor
    \/ WaitAgain
    \/ WaitNext
    \/ Clear
    \/ Get
    \/ StageEnd
    \/ OutputOk
    \/ OutputFail

TaskStep ==
    \E t \in 1..numThreads : TaskSubstr(t) \/ TaskApply(t)

Next ==
    \/ MainStep
    \/ TaskStep
    \/ Redecrypt

Spec == Init /\ [][Next]_vars

TypeOK ==
    /\ Range(cipherType) \subseteq CipherTypes
    /\ cipherMode \in CipherModes
    /\ pc \in {"construct", "stage", "launch", "wait", "poll", "get", "exit"}
    /\ exitStatus \in {-1, 0, FailExit}
    /\ Len(futures) <= numThreads
    /\ stage \in 1..(Len(ciphers) + 1)

\* the main thread is scheduled fairly; a chunk task need not complete
FairSpec == FairInit /\ [][Next]_vars /\ WF_vars(MainStep)

\* ------------------------------------------------------------------------
\* Properties
\* ------------------------------------------------------------------------

AllReady == \A t \in 1..Len(futures) : futures[t].state = "ready"

TaskPending == \E t \in 1..Len(futures) : futures[t].state # "ready"

RECURSIVE ConcatResults(_)
ConcatResults(futs) ==
    IF futs = <<>> THEN <<>>
    ELSE ConcatResults(SubSeq(futs, 1, Len(futs) - 1)) \o futs[Len(futs)].result

Finished == pc = "exit" /\ exitStatus = 0 /\ written

\* decrypt undoes encrypt on every input text
Invertible(c) ==
    \A text \in Texts :
        applyCipher(c, applyCipher(c, text, "Encrypt"), "Decrypt") = text

\* C1: the k-th stage applies cipher k of the configured list when
\* encrypting and cipher n+1-k when decrypting, in every call it makes.
C1_StageAppliesOwnCipher ==
    \A c \in calls :
        c.cipher = IF cipherMode = "Encrypt" THEN c.stage
                   ELSE nCiphers + 1 - c.stage

\* C2: decrypting the output of an encrypting run, with the same ciphers
\* and keys, gives back the original text when every cipher of the list is
\* invertible.
C2_RoundTrip ==
    (run = 2 /\ Finished /\ \A j \in 1..Len(ciphers) : Invertible(ciphers[j]))
        => out = original

\* C3: a stage runs as chunk tasks exactly when its own cipher is Caesar.
C3_ChunkedIffCaesarStage ==
    /\ \A c \in calls :
        (c.chunk # 0) <=> (ciphers[c.stage].type = "Caesar")
    /\ pc \in {"launch", "wait", "poll", "get"}
        => ciphers[stage].type = "Caesar"

\* C4: with a single Caesar cipher the text produced by the four chunk
\* tasks is the transform applied once to the whole text.
C4_ChunkedEqualsWhole ==
    (Finished /\ cipherType = <<"Caesar">>)
        => out = CaesarApply(ciphers[1].key, stageInput, cipherMode)

C4_Witness ==
    /\ Finished
    /\ cipherType = <<"Caesar">>
    /\ Len(stageInput) = 5
    /\ out # stageInput

\* C5: the chunk ranges are contiguous from 0 to the text length L, chunks
\* 0..2 have length L div 4 and chunk 3 takes the rest.
C5_ChunkRanges ==
    LET L == Len(stageInput)
    IN  \A t \in 1..Len(futures) :
            /\ futures[t].start <= futures[t].end
            /\ futures[t].end <= L
            /\ futures[t].start = IF t = 1 THEN 0 ELSE futures[t - 1].end
            /\ t < numThreads
                => futures[t].end - futures[t].start = L \div numThreads
            /\ t = numThreads
                => /\ futures[t].end = L
                   /\ futures[t].end - futures[t].start
                          = L - (numThreads - 1) * (L \div numThreads)

C5_Witness ==
    /\ Len(futures) = numThreads
    /\ Len(stageInput) = 5
    /\ futures[numThreads].end - futures[numThreads].start = 2

\* C6: whatever the order in which the tasks complete, the text collected
\* so far is the concatenation of the results by chunk index, and each
\* result is the transform of the chunk of that index.
C6_ConcatByIndex ==
    /\ pc = "get"
        => cipherText = ConcatResults(SubSeq(futures, 1, fut - 1))
    /\ \A t \in 1..Len(futures) :
        futures[t].state = "ready"
            => futures[t].result =
                   applyCipher(Head(ciphers),
                               Substr(stageInput, futures[t].start,
                                      futures[t].end),
                               cipherMode)

C6_Witness ==
    /\ pc = "get"
    /\ fut > Len(futures)
    /\ outOfOrder
    /\ Len(stageInput) >= numThreads
    /\ cipherText = ConcatResults(futures)
    /\ cipherText # stageInput

\* C7: the run loop moves to the next stage only when every chunk task of
\* the stage has completed and the running text is the reassembly of their
\* results.
C7_StageBarrier ==
    [][(stage' = stage + 1 /\ futures # <<>>)
          => (AllReady /\ cipherText = ConcatResults(futures))]_vars

C7_Witness ==
    /\ stage = 2
    /\ pc = "launch"
    /\ Len(futures) >= 1
    /\ Cardinality({c \in calls : c.stage = 1 /\ c.chunk # 0}) = numThreads

\* C8: while a chunk task has not completed, the running text, the cipher
\* list and the settings are not written, and a step of a task changes the
\* chunk and result of that task only.
C8_NoWriteWhileTasksRun ==
    [][/\ TaskPending
          => (cipherText' = cipherText /\ ciphers' = ciphers
                 /\ settings' = settings)
       /\ \A t \in 1..Len(futures) :
            (Len(futures') = Len(futures) /\ futures'[t] # futures[t])
               => \A u \in 1..Len(futures) : u # t => futures'[u] = futures[u]
      ]_vars

C8_Witness ==
    /\ pc = "poll"
    /\ status = "timeout"
    /\ futures[fut].state = "copied"
    /\ \E t \in 1..Len(futures) : futures[t].state = "ready"
    /\ cipherText = stageInput
    /\ Len(cipherText) >= numThreads

\* C9: if a chunk task never completes, the run ends in a fatal error state
\* without output.
C9_BoundedWait ==
    (<>[]TaskPending) => <>(pc = "exit" /\ exitStatus # 0 /\ ~written)

\* C10: a failed construction ends the run with status 1, and no transform,
\* chunk task or output happens unless every cipher was constructed.
Aborted ==
    /\ pc = "exit"
    /\ exitStatus = 1
    /\ calls = {}
    /\ futures = <<>>
    /\ ~written
    /\ out = <<>>

C10_FailedConstructionAborts ==
    /\ (\E j \in 1..Len(ciphers) : ciphers[j] = NullCipher) => Aborted
    /\ (pc = "exit" /\ Len(ciphers) < nCiphers) => Aborted
    /\ (calls # {} \/ futures # <<>> \/ written)
          => Len(ciphers) = nCiphers

C10_Witness ==
    /\ pc = "exit"
    /\ exitStatus = 1
    /\ nCiphers >= 2
    /\ Len(ciphers) = 1
    /\ ciphers[1].type = "Caesar"
    /\ ~written

\* every thread is scheduled fairly: the main thread and each chunk task
LiveSpec ==
    /\ FairInit
    /\ [][Next]_vars
    /\ WF_vars(MainStep)
    /\ \A t \in 1..numThreads : WF_vars(TaskSubstr(t) \/ TaskApply(t))

\* C11: every applyCipher call of a run, sequential or in a chunk task,
\* receives the mode of the settings, and the settings' mode does not
\* change during a run.
C11_UniformMode ==
    [][/\ \A c \in calls' : c.mode = cipherMode'
       /\ run' = run => cipherMode' = cipherMode]_vars

C11_Witness ==
    /\ cipherMode = "Decrypt"
    /\ \E c \in calls : c.stage = 1 /\ c.chunk = 1
    /\ \E c \in calls : c.stage = 2 /\ c.chunk = numThreads

\* C12: when every thread is scheduled fairly, a run whose ciphers were all
\* constructed goes through all its stages and reaches the output step, and
\* the polling loop on a future is left once that future is ready.
C12_RunCompletes ==
    /\ (pc = "construct" /\ Len(ciphers) = nCiphers)
          ~> (pc = "exit" /\ stage = nCiphers + 1)
    /\ (pc = "poll" /\ futures[fut].state = "ready") ~> (pc # "poll")

C12_Witness ==
    /\ pc = "exit"
    /\ nCiphers = 1
    /\ stage = 2
    /\ Cardinality(calls) = numThreads
    /\ Len(cipherText) = 5

C15_StageCount ==
    /\ Finished
          => /\ stage = nCiphers + 1
             /\ {c.stage : c \in calls} = 1..nCiphers
    /\ nCiphers = 0
          => /\ calls = {}
             /\ cipherText = original
             /\ Finished => out = original

C15_Witness ==
    /\ Finished
    /\ cipherType = <<"Vigenere", "Playfair">>
    /\ cipherMode = "Decrypt"
    /\ {c.stage : c \in calls} = {1, 2}
    /\ out # original

====
